---- MODULE Spec2Model ----
(***************************************************************************)
(* A model of the 11c.dev AVL balanced binary search tree (AVLTree.h,      *)
(* AVLTreeNode.h, MapEntry.h).                                             *)
(*                                                                         *)
(* The tree is a heap of nodes addressed by small integers (0 is nullptr). *)
(* Add, Remove, the rotations and the iterator are translated statement by *)
(* statement; loops become RECURSIVE operators.                            *)
(*                                                                         *)
(* Remove as written does not build once instantiated                      *)
(* (`current = my_stack.pop()` and `return nullptr` for a MapEntry); the   *)
(* model reads the first as top-then-pop, like every other pop in the      *)
(* file, and the second as returning a null result without throwing.       *)
(*                                                                         *)
(* `delete removed` leaves the node's memory behind: an address that is    *)
(* still linked from the tree after its delete is kept in `freed`.  Reads  *)
(* through it see what the memory holds: the stale node until a later      *)
(* `new`, which hands out either that address again (the node built there, *)
(* kept or leaked, is then what the tree links to) or a fresh one.         *)
(***************************************************************************)
EXTENDS Integers, Sequences, FiniteSets, TLC

\* Keys are 1..MaxKey.
MaxKey == 4

\* Keys of the trees that SpecGrow builds before its one Remove: 7 keys is
\* the least number with which a removed node's in-order successor has a
\* right subtree of its own and a rotation moves a non-empty inner subtree.
MaxTreeKey == 7

\* Addresses of nodes that can be linked into the tree at one time.
MaxNodes == MaxTreeKey + 1

\* count_ is kept inside -MaxNodes..MaxNodes by the guards of Add and Remove.
MaxCount == MaxNodes

\* Once a Remove has left its deleted node linked in the tree, the program
\* runs on freed memory; the model follows it for this many Add/Remove calls
\* (the faulty Remove included) or until Clear.
MaxTainted == 3

Keys == 1..MaxKey

TreeKeys == 1..MaxTreeKey

Values == {"a", "b"}

NULL == 0

\* Stands for the result of a walk over child pointers that does not end.
Lost == -1

Addr == 1..MaxNodes

\* enum class AVLTreeTraversalMethod
Methods == {"InOrder", "ReverseOrder", "TopDown"}

\* No value: the value slot of a result that carries no entry.
NoValue == "none"

VARIABLES
    heap,               \* Addr -> node: key_, value_, left_, right_, height_
    freed,              \* addresses deleted by Remove and still linked from the tree
    root_,              \* AVLTree::root_
    count_,             \* AVLTree::count_
    traversal_method_,  \* AVLTree::traversal_method_
    ref,                \* reference map run side by side: key -> value or NoValue
    net,                \* successful Adds minus successful Removes since the last Clear
    tainted,            \* Add/Remove calls since a Remove left a deleted node linked
    last,               \* the last operation: arguments, outcome, branch, rotations
    out                 \* addresses yielded by the last full iteration, in order

vars == <<heap, freed, root_, count_, traversal_method_, ref, net, tainted, last, out>>

----------------------------------------------------------------------------
(* Sequences used as std::stack (top is the last element) and std::queue.  *)

Top(s) == s[Len(s)]

Pop(s) == SubSeq(s, 1, Len(s) - 1)

Range(s) == {s[i] : i \in 1..Len(s)}

----------------------------------------------------------------------------
(* AVLTreeNode                                                             *)

\* Contents of an address that is not linked from the tree.
Blank == [key |-> 0, value |-> NoValue, left |-> NULL, right |-> NULL, height |-> 0]

\* AVLTreeNode(key, value): a leaf; CalculateHeight() on no children gives 0.
NewNode(k, v) == [key |-> k, value |-> v, left |-> NULL, right |-> NULL, height |-> 0]

SetLeft(h, n, c) == [h EXCEPT ![n].left = c]

SetRight(h, n, c) == [h EXCEPT ![n].right = c]

GetBalanceFactor(h, n) ==
    LET r == IF h[n].right = NULL THEN -1 ELSE h[h[n].right].height
        l == IF h[n].left = NULL THEN -1 ELSE h[h[n].left].height
    IN  l - r

CalculateHeight(h, n) ==
    LET r == IF h[n].right = NULL THEN -1 ELSE h[h[n].right].height
        l == IF h[n].left = NULL THEN -1 ELSE h[h[n].left].height
    IN  [h EXCEPT ![n].height = IF r > l THEN r + 1 ELSE l + 1]

GetMapEntry(h, n) == [key |-> h[n].key, value |-> h[n].value]

----------------------------------------------------------------------------
(* Rotations.  T is [heap, root].  A name bound by an operator parameter   *)
(* stands for the heap after the statements before it.                     *)

RotateRight(T, node, parent) ==
    LET left_node == T.heap[node].left
        \* if (parent == nullptr) root_ = left_node; else parent->Set...(left_node)
        Relink(h) ==
            IF parent = NULL
            THEN [heap |-> h, root |-> left_node]
            ELSE IF h[left_node].key < h[parent].key
                 THEN [heap |-> SetLeft(h, parent, left_node), root |-> T.root]
                 ELSE [heap |-> SetRight(h, parent, left_node), root |-> T.root]
        \* node->SetLeft(left_node->GetRight()); left_node->SetRight(node);
        Relinked == SetRight(SetLeft(T.heap, node, T.heap[left_node].right),
                             left_node, node)
    IN  Relink(CalculateHeight(CalculateHeight(Relinked, node), left_node))

RotateLeft(T, node, parent) ==
    LET right_node == T.heap[node].right
        Relink(h) ==
            IF parent = NULL
            THEN [heap |-> h, root |-> right_node]
            ELSE IF h[right_node].key < h[parent].key
                 THEN [heap |-> SetLeft(h, parent, right_node), root |-> T.root]
                 ELSE [heap |-> SetRight(h, parent, right_node), root |-> T.root]
        \* node->SetRight(right_node->GetLeft()); right_node->SetLeft(node);
        Relinked == SetLeft(SetRight(T.heap, node, T.heap[right_node].left),
                            right_node, node)
    IN  Relink(CalculateHeight(CalculateHeight(Relinked, node), right_node))

\* A faulty rotation selection that rotates already at balance factor 1 or -1.
RotateIfUnbalanced_Eager(T, current, parent) ==
    IF GetBalanceFactor(T.heap, current) > 0
    THEN RotateRight(IF GetBalanceFactor(T.heap, T.heap[current].left) < 0
                     THEN RotateLeft(T, T.heap[current].left, current)
                     ELSE T,
                     current, parent)
    ELSE IF GetBalanceFactor(T.heap, current) < 0
    THEN RotateLeft(IF GetBalanceFactor(T.heap, T.heap[current].right) > 0
                    THEN RotateRight(T, T.heap[current].right, current)
                    ELSE T,
                    current, parent)
    ELSE T

\* The rotations of the unwind loop for one popped node whose height has
\* been recomputed: none while the balance factor is in [-1, 1].
RotateIfUnbalanced(T, current, parent) ==
    IF GetBalanceFactor(T.heap, current) > 1
    THEN RotateRight(IF GetBalanceFactor(T.heap, T.heap[current].left) < 0
                     THEN RotateLeft(T, T.heap[current].left, current)
                     ELSE T,
                     current, parent)
    ELSE IF GetBalanceFactor(T.heap, current) < -1
    THEN RotateLeft(IF GetBalanceFactor(T.heap, T.heap[current].right) > 0
                    THEN RotateRight(T, T.heap[current].right, current)
                    ELSE T,
                    current, parent)
    ELSE T

\* The body of the unwind loop of Add and Remove for one popped node.
\* `stack` is the stack after the pop, so its top is the rotation's parent.
Rebalance(T, current, stack) ==
    RotateIfUnbalanced([heap |-> CalculateHeight(T.heap, current), root |-> T.root],
                       current, Top(stack))

\* while (current != nullptr) { ...; current = my_stack.top(); my_stack.pop(); }
RECURSIVE Unwind(_, _, _)
Unwind(T, current, stack) ==
    IF current = NULL
    THEN T
    ELSE Unwind(Rebalance(T, current, stack), Top(stack), Pop(stack))

\* The rotation events of the unwind loop, in order: for every popped node
\* at which a rotation (single or double) is invoked, its key and the
\* balance factor found there.
RECURSIVE UnwindRotations(_, _, _)
UnwindRotations(T, current, stack) ==
    LET Event(T1) ==
            IF RotateIfUnbalanced(T1, current, Top(stack)) # T1
            THEN <<[key |-> T1.heap[current].key,
                    bf |-> GetBalanceFactor(T1.heap, current)]>>
            ELSE <<>>
    IN  IF current = NULL
        THEN <<>>
        ELSE Event([heap |-> CalculateHeight(T.heap, current), root |-> T.root])
                 \o UnwindRotations(Rebalance(T, current, stack), Top(stack), Pop(stack))

----------------------------------------------------------------------------
(* Addresses.  The program never looks at the numeric value of a pointer,  *)
(* so after every operation the nodes linked from the root are renumbered  *)
(* 1, 2, ... in breadth-first order and every other address is blanked.    *)

\* A loop that follows child pointers visits at most this many nodes unless
\* the links form a cycle.
Fuel == MaxNodes + 1

RECURSIVE Bfs(_, _, _)
Bfs(h, q, acc) ==
    IF q = <<>>
    THEN acc
    ELSE IF Head(q) = NULL \/ Head(q) \in Range(acc)
    THEN Bfs(h, Tail(q), acc)
    ELSE Bfs(h, Tail(q) \o <<h[Head(q)].left, h[Head(q)].right>>, Append(acc, Head(q)))

\* The addresses linked from `rt`, each once, in breadth-first order.
Linked(h, rt) == Bfs(h, <<rt>>, <<>>)

\* The position of address a in `order` (NULL stays NULL).
Renamed(order, a) ==
    IF a = NULL THEN NULL ELSE CHOOSE i \in 1..Len(order) : order[i] = a

NormalizeBy(h, rt, fr, order) ==
    [heap  |-> [a \in Addr |->
                  IF a <= Len(order)
                  THEN [h[order[a]] EXCEPT !.left = Renamed(order, @),
                                           !.right = Renamed(order, @)]
                  ELSE Blank],
     root  |-> Renamed(order, rt),
     freed |-> {Renamed(order, a) : a \in fr \cap Range(order)}]

Normalize(h, rt, fr) == NormalizeBy(h, rt, fr, Linked(h, rt))

\* The address a `new` hands out when it does not reuse a freed one.
FreshAddr(h, rt) == Len(Linked(h, rt)) + 1

----------------------------------------------------------------------------
(* AVLTree::GetNode / Get                                                  *)

\* The node holding `key`, or NULL where the code throws std::range_error;
\* Lost when the walk does not end.
RECURSIVE GetNode(_, _, _, _)
GetNode(h, current, key, fuel) ==
    IF current = NULL
    THEN NULL
    ELSE IF fuel = 0
    THEN Lost
    ELSE IF h[current].key = key
    THEN current
    ELSE IF h[current].key < key
    THEN GetNode(h, h[current].right, key, fuel - 1)
    ELSE GetNode(h, h[current].left, key, fuel - 1)

----------------------------------------------------------------------------
(* AVLTree::GetMinKey / GetMaxKey.  Give [status, key]; status "null" is   *)
(* the `return nullptr` of the empty tree, "hang" a walk that does not end.*)

\* while (current->GetLeft() != nullptr) current = current->GetLeft();
RECURSIVE WalkLeft(_, _, _)
WalkLeft(h, current, fuel) ==
    IF h[current].left = NULL
    THEN current
    ELSE IF fuel = 0
    THEN Lost
    ELSE WalkLeft(h, h[current].left, fuel - 1)

\* while (current->GetRight() != nullptr) current = current->GetRight();
RECURSIVE WalkRight(_, _, _)
WalkRight(h, current, fuel) ==
    IF h[current].right = NULL
    THEN current
    ELSE IF fuel = 0
    THEN Lost
    ELSE WalkRight(h, h[current].right, fuel - 1)

\* return current->GetKey();
KeyAt(h, n) ==
    IF n = Lost
    THEN [status |-> "hang", key |-> 0]
    ELSE [status |-> "ok", key |-> h[n].key]

GetMinKey(h, rt) ==
    IF rt = NULL
    THEN [status |-> "null", key |-> 0]
    ELSE KeyAt(h, WalkLeft(h, rt, Fuel))

GetMaxKey(h, rt) ==
    IF rt = NULL
    THEN [status |-> "null", key |-> 0]
    ELSE KeyAt(h, WalkRight(h, rt, Fuel))

----------------------------------------------------------------------------
(* AVLTree::Add                                                            *)

\* The descent of Add: pushes every visited node; stops at a null slot or at
\* an equal key (the throw).
RECURSIVE AddSearch(_, _, _, _, _, _)
AddSearch(h, node, current, parent, stack, fuel) ==
    IF current = NULL
    THEN [dup |-> FALSE, hang |-> FALSE, parent |-> parent, stack |-> stack]
    ELSE IF fuel = 0
    THEN [dup |-> FALSE, hang |-> TRUE, parent |-> parent, stack |-> stack]
    ELSE IF h[node].key = h[current].key
    THEN [dup |-> TRUE, hang |-> FALSE, parent |-> parent,
          stack |-> Append(stack, current)]
    ELSE IF h[node].key > h[current].key
    THEN AddSearch(h, node, h[current].right, current, Append(stack, current), fuel - 1)
    ELSE AddSearch(h, node, h[current].left, current, Append(stack, current), fuel - 1)

\* A faulty Add that leaves the count as it was.
CountAfterAdd_Forgotten(c) == c

\* count_++
CountAfterAdd(c) == c + 1

\* if (parent == nullptr) root_ = node; else parent->SetRight/SetLeft(node)
AddAttach(h, rt, node, parent) ==
    IF parent = NULL
    THEN [heap |-> h, root |-> node]
    ELSE IF h[node].key > h[parent].key
    THEN [heap |-> SetRight(h, parent, node), root |-> rt]
    ELSE [heap |-> SetLeft(h, parent, node), root |-> rt]

\* Add(Key, Value) with `node` the address returned by new.
\* Gives [status, heap, root, count, rotations].
Add(h, rt, cnt, Key, Value, node) ==
    LET Done(status, T, c, rotations) ==
            [status |-> status, heap |-> T.heap, root |-> T.root, count |-> c,
             rotations |-> rotations]
        \* T0: the tree once the node is attached; s: the descent's result
        Attached(T0, s) ==
            Done("ok", Unwind(T0, Top(s.stack), Pop(s.stack)), CountAfterAdd(cnt),
                 UnwindRotations(T0, Top(s.stack), Pop(s.stack)))
        \* h0: the heap once the node is constructed
        After(h0, s) ==
            IF s.hang
            THEN Done("hang", [heap |-> h0, root |-> rt], cnt, <<>>)
            ELSE IF s.dup
            THEN Done("DuplicateKey", [heap |-> h0, root |-> rt], cnt, <<>>)
            ELSE Attached(AddAttach(h0, rt, node, s.parent), s)
        Search(h0) == After(h0, AddSearch(h0, node, rt, NULL, <<NULL>>, Fuel))
    IN  Search([h EXCEPT ![node] = NewNode(Key, Value)])

----------------------------------------------------------------------------
(* AVLTree::Remove                                                         *)

\* while (current != nullptr && current->GetKey() != key) { push; descend }
RECURSIVE RemoveSearch(_, _, _, _, _, _)
RemoveSearch(h, key, current, parent, stack, fuel) ==
    IF current = NULL \/ fuel = 0
    THEN [current |-> NULL, hang |-> current # NULL, parent |-> parent, stack |-> stack]
    ELSE IF h[current].key = key
    THEN [current |-> current, hang |-> FALSE, parent |-> parent, stack |-> stack]
    ELSE IF key > h[current].key
    THEN RemoveSearch(h, key, h[current].right, current, Append(stack, current), fuel - 1)
    ELSE RemoveSearch(h, key, h[current].left, current, Append(stack, current), fuel - 1)

\* Case 1, the node has no right child: its left child replaces it.
\* Both branches of the parent test call SetRight.
RemoveCase1(T, current, parent, stack) ==
    LET left == T.heap[current].left
        Pushed(st) ==
            IF parent = NULL
            THEN [heap |-> T.heap, root |-> left, stack |-> st, hang |-> FALSE]
            ELSE IF T.heap[parent].key < T.heap[current].key
            THEN [heap |-> SetRight(T.heap, parent, left), root |-> T.root,
                  stack |-> st, hang |-> FALSE]
            ELSE [heap |-> SetRight(T.heap, parent, left), root |-> T.root,
                  stack |-> st, hang |-> FALSE]
    IN  Pushed(IF left # NULL THEN Append(stack, left) ELSE stack)

\* A faulty case 2 that always writes the parent's right slot.
RemoveCase2_AlwaysRight(T, current, parent, stack) ==
    LET right == T.heap[current].right
        Relink(h) ==
            IF parent = NULL
            THEN [heap |-> h, root |-> right, stack |-> Append(stack, right),
                  hang |-> FALSE]
            ELSE [heap |-> SetRight(h, parent, right), root |-> T.root,
                  stack |-> Append(stack, right), hang |-> FALSE]
    IN  Relink(SetLeft(T.heap, right, T.heap[current].left))

\* Case 2, the right child has no left child: the right child replaces it.
RemoveCase2(T, current, parent, stack) ==
    LET right == T.heap[current].right
        \* h: the heap after current->GetRight()->SetLeft(current->GetLeft())
        Relink(h) ==
            IF parent = NULL
            THEN [heap |-> h, root |-> right, stack |-> Append(stack, right),
                  hang |-> FALSE]
            ELSE IF h[parent].key < h[current].key
            THEN [heap |-> SetRight(h, parent, right), root |-> T.root,
                  stack |-> Append(stack, right), hang |-> FALSE]
            ELSE [heap |-> SetLeft(h, parent, right), root |-> T.root,
                  stack |-> Append(stack, right), hang |-> FALSE]
    IN  Relink(SetLeft(T.heap, right, T.heap[current].left))

\* while (leftmost->GetLeft() != nullptr) { lmqueue.push(leftmost); ... }
RECURSIVE LeftmostSearch(_, _, _, _, _)
LeftmostSearch(h, lmparent, leftmost, lmqueue, fuel) ==
    IF h[leftmost].left = NULL \/ fuel = 0
    THEN [lmparent |-> lmparent, leftmost |-> leftmost, lmqueue |-> lmqueue,
          hang |-> h[leftmost].left # NULL]
    ELSE LeftmostSearch(h, leftmost, h[leftmost].left, Append(lmqueue, leftmost), fuel - 1)

\* A faulty case 3 that does not push the successor: the ancestor stack
\* skips the node that took the removed node's place.
RemoveCase3_SuccessorNotPushed(T, current, parent, stack) ==
    LET \* h: the heap after the three Set calls on lmparent and leftmost
        Relink(h, lm) ==
            IF parent = NULL
            THEN [heap |-> h, root |-> lm.leftmost,
                  stack |-> stack \o lm.lmqueue, hang |-> lm.hang]
            ELSE IF h[parent].key < h[current].key
            THEN [heap |-> SetRight(h, parent, lm.leftmost), root |-> T.root,
                  stack |-> stack \o lm.lmqueue, hang |-> lm.hang]
            ELSE [heap |-> SetLeft(h, parent, lm.leftmost), root |-> T.root,
                  stack |-> stack \o lm.lmqueue, hang |-> lm.hang]
        \* leftmost->SetLeft(current->GetLeft())
        TakeLeft(h, lm) == Relink(SetLeft(h, lm.leftmost, h[current].left), lm)
        \* leftmost->SetRight(current->GetRight())
        TakeRight(h, lm) == TakeLeft(SetRight(h, lm.leftmost, h[current].right), lm)
        \* lmparent->SetLeft(leftmost->GetRight())
        Detach(lm) == TakeRight(SetLeft(T.heap, lm.lmparent, T.heap[lm.leftmost].right), lm)
    IN  Detach(LeftmostSearch(T.heap, T.heap[current].right,
                              T.heap[T.heap[current].right].left,
                              <<T.heap[current].right>>, Fuel))

\* Case 3: the left-most descendant of the right child replaces the node.
RemoveCase3(T, current, parent, stack) ==
    LET \* h: the heap after the three Set calls on lmparent and leftmost
        Relink(h, lm) ==
            IF parent = NULL
            THEN [heap |-> h, root |-> lm.leftmost,
                  stack |-> Append(stack, lm.leftmost) \o lm.lmqueue, hang |-> lm.hang]
            ELSE IF h[parent].key < h[current].key
            THEN [heap |-> SetRight(h, parent, lm.leftmost), root |-> T.root,
                  stack |-> Append(stack, lm.leftmost) \o lm.lmqueue, hang |-> lm.hang]
            ELSE [heap |-> SetLeft(h, parent, lm.leftmost), root |-> T.root,
                  stack |-> Append(stack, lm.leftmost) \o lm.lmqueue, hang |-> lm.hang]
        \* leftmost->SetLeft(current->GetLeft())
        TakeLeft(h, lm) == Relink(SetLeft(h, lm.leftmost, h[current].left), lm)
        \* leftmost->SetRight(current->GetRight())
        TakeRight(h, lm) == TakeLeft(SetRight(h, lm.leftmost, h[current].right), lm)
        \* lmparent->SetLeft(leftmost->GetRight())
        Detach(lm) == TakeRight(SetLeft(T.heap, lm.lmparent, T.heap[lm.leftmost].right), lm)
    IN  Detach(LeftmostSearch(T.heap, T.heap[current].right,
                              T.heap[T.heap[current].right].left,
                              <<T.heap[current].right>>, Fuel))

\* The structural case of Remove that the node `current` falls under.
RemoveCase(h, current) ==
    IF h[current].right = NULL
    THEN "case1"
    ELSE IF h[h[current].right].left = NULL
    THEN "case2"
    ELSE "case3"

\* The case as recorded for the last Remove: within case 3 it tells apart a
\* successor that has a right subtree to hand over to its former parent.
RemovePath(h, current) ==
    LET Right(lm) ==
            IF lm.hang \/ h[lm.leftmost].right = NULL
            THEN "case3"
            ELSE "case3 successor has right"
    IN  IF RemoveCase(h, current) # "case3"
        THEN RemoveCase(h, current)
        ELSE Right(LeftmostSearch(h, h[current].right, h[h[current].right].left,
                                  <<h[current].right>>, Fuel))

\* The splice of Remove: the three structural cases.
Splice(T, current, parent, stack) ==
    CASE RemoveCase(T.heap, current) = "case1" -> RemoveCase1(T, current, parent, stack)
      [] RemoveCase(T.heap, current) = "case2" -> RemoveCase2(T, current, parent, stack)
      [] RemoveCase(T.heap, current) = "case3" -> RemoveCase3(T, current, parent, stack)

\* count_--
CountAfterRemove(c) == c - 1

\* Remove(key).  Gives [status, entry, heap, root, count, removed, path,
\* rotations]; status "null" is the `return nullptr` of the key-not-found
\* path, `path` the structural case taken.
Remove(h, rt, cnt, key) ==
    LET \* T: the tree after the unwind; then the entry is read, the removed
        \* node's children are cleared and it is deleted
        Finish(T, removed, hang, rotations) ==
            [status |-> IF hang THEN "hang" ELSE "ok",
             entry |-> GetMapEntry(T.heap, removed),
             heap |-> SetRight(SetLeft(T.heap, removed, NULL), removed, NULL),
             root |-> T.root, count |-> CountAfterRemove(cnt), removed |-> removed,
             path |-> RemovePath(h, removed),
             rotations |-> IF hang THEN <<>> ELSE rotations]
        Spliced(sp, removed) ==
            Finish(Unwind([heap |-> sp.heap, root |-> sp.root],
                          Top(sp.stack), Pop(sp.stack)),
                   removed, sp.hang,
                   UnwindRotations([heap |-> sp.heap, root |-> sp.root],
                                   Top(sp.stack), Pop(sp.stack)))
        After(s) ==
            IF s.hang
            THEN [status |-> "hang", entry |-> [key |-> key, value |-> NoValue],
                  heap |-> h, root |-> rt, count |-> cnt, removed |-> NULL,
                  path |-> "none", rotations |-> <<>>]
            ELSE IF s.current = NULL
            THEN [status |-> "null", entry |-> [key |-> key, value |-> NoValue],
                  heap |-> h, root |-> rt, count |-> cnt, removed |-> NULL,
                  path |-> "none", rotations |-> <<>>]
            ELSE Spliced(Splice([heap |-> h, root |-> rt], s.current, s.parent, s.stack),
                         s.current)
    IN  After(RemoveSearch(h, key, rt, NULL, <<NULL>>, Fuel))

----------------------------------------------------------------------------
(* AVLTree::Iterator.  An iterator is [current, stack, queue].             *)

\* A full iteration of a tree-shaped heap advances at most MaxNodes times.
IterFuel == 3 * MaxNodes

RECURSIVE PushLefts(_, _, _, _)
PushLefts(h, current, stack, fuel) ==
    IF current = NULL
    THEN stack
    ELSE IF fuel = 0
    THEN Append(stack, Lost)
    ELSE PushLefts(h, h[current].left, Append(stack, current), fuel - 1)

RECURSIVE PushRights(_, _, _, _)
PushRights(h, current, stack, fuel) ==
    IF current = NULL
    THEN stack
    ELSE IF fuel = 0
    THEN Append(stack, Lost)
    ELSE PushRights(h, h[current].right, Append(stack, current), fuel - 1)

StackLeftToNull(h, stack) ==
    IF Top(stack) # NULL THEN PushLefts(h, h[Top(stack)].left, stack, Fuel) ELSE stack

\* A faulty StackRightToNull that pushes no right-descendant.
StackRightToNull_NoDescent(h, stack) == stack

StackRightToNull(h, stack) ==
    IF Top(stack) # NULL THEN PushRights(h, h[Top(stack)].right, stack, Fuel) ELSE stack

\* The children of `n` that TopDown pushes on the queue, left first.
PushChildren(h, n, queue) ==
    (IF h[n].left # NULL THEN Append(queue, h[n].left) ELSE queue)
        \o (IF h[n].right # NULL THEN <<h[n].right>> ELSE <<>>)

\* current_ = stack_.top(); stack_.pop();
TakeTop(stack, queue) == [current |-> Top(stack), stack |-> Pop(stack), queue |-> queue]

SetInitalLocation(h, start, method) ==
    CASE method = "InOrder" -> TakeTop(StackLeftToNull(h, <<NULL, start>>), <<>>)
      [] method = "ReverseOrder" -> TakeTop(StackRightToNull(h, <<NULL, start>>), <<>>)
      [] method = "TopDown" ->
           [current |-> start, stack |-> <<>>,
            queue |-> IF start # NULL THEN PushChildren(h, start, <<>>) ELSE <<>>]

MoveNext(h, it, method) ==
    CASE method = "InOrder" ->
           TakeTop(IF h[it.current].right # NULL
                   THEN StackLeftToNull(h, Append(it.stack, h[it.current].right))
                   ELSE it.stack,
                   it.queue)
      [] method = "ReverseOrder" ->
           TakeTop(IF h[it.current].left # NULL
                   THEN StackRightToNull(h, Append(it.stack, h[it.current].left))
                   ELSE it.stack,
                   it.queue)
      [] method = "TopDown" ->
           IF it.queue # <<>>
           THEN [current |-> Head(it.queue), stack |-> it.stack,
                 queue |-> PushChildren(h, Head(it.queue), Tail(it.queue))]
           ELSE [current |-> NULL, stack |-> it.stack, queue |-> it.queue]

\* begin() and end()
Begin(h, rt, method) == SetInitalLocation(h, rt, method)

End(h, method) == SetInitalLocation(h, NULL, method)

\* for (it = begin(); it != end(); ++it) yield *it
RECURSIVE Advance(_, _, _, _, _)
Advance(h, it, method, yielded, fuel) ==
    IF it.current = End(h, method).current
    THEN [out |-> yielded, hang |-> FALSE]
    ELSE IF fuel = 0 \/ it.current = Lost
    THEN [out |-> yielded, hang |-> TRUE]
    ELSE Advance(h, MoveNext(h, it, method), method, Append(yielded, it.current), fuel - 1)

Iterate(h, rt, method) == Advance(h, Begin(h, rt, method), method, <<>>, IterFuel)

----------------------------------------------------------------------------
(* The container as a state machine: one action per public operation.      *)

NoEntry == [key |-> 0, value |-> NoValue]

\* The record of an operation: its name, key argument (or the key or number
\* it returned), outcome, returned entry, the branch it took and its rotation events.
Last(op, key, status, entry, path, rotations) ==
    [op |-> op, key |-> key, status |-> status, entry |-> entry,
     path |-> path, rotations |-> rotations]

\* int GetTreeHieight(): the root's cached height, 0 for no root.
GetTreeHieight(h, rt) == IF rt # NULL THEN h[rt].height ELSE 0

\* int GetTreeBalanceFactor(): the root's balance factor, 0 for no root.
GetTreeBalanceFactor(h, rt) == IF rt # NULL THEN GetBalanceFactor(h, rt) ELSE 0

\* int GetCount() { return count_; }
GetCount == count_

Init ==
    /\ heap = [a \in Addr |-> Blank]
    /\ freed = {}
    /\ root_ = NULL
    /\ count_ = 0
    /\ traversal_method_ \in Methods
    /\ ref = [k \in TreeKeys |-> NoValue]
    /\ net = 0
    /\ tainted = 0
    /\ last = Last("new", 0, "ok", NoEntry, "none", <<>>)
    /\ out = <<>>

\* The tree variables after an operation that left heap h, root rt and the
\* deleted-but-linked addresses fr.
Store(h, rt, fr) ==
    \E N \in {Normalize(h, rt, fr)} :
        /\ heap' = N.heap
        /\ root_' = N.root
        /\ freed' = N.freed

\* Add(k, v); `node` is the address new returns: a fresh one, or one that
\* was deleted while still linked from the tree.
AddOp(k, v, node) ==
    /\ count_ < MaxCount
    /\ tainted < MaxTainted
    /\ \/ node \in freed
       \/ node = FreshAddr(heap, root_)
    /\ \E r \in {Add(heap, root_, count_, k, v, node)} :
           /\ r.status # "hang"
           /\ Store(r.heap, r.root, freed \ {node})
           /\ count_' = r.count
           /\ ref' = IF r.status = "ok" THEN [ref EXCEPT ![k] = v] ELSE ref
           /\ net' = IF r.status = "ok" THEN net + 1 ELSE net
           /\ last' = Last("Add", k, r.status, NoEntry, "none", r.rotations)
    /\ tainted' = IF tainted > 0 THEN tainted + 1 ELSE 0
    /\ out' = <<>>
    /\ UNCHANGED traversal_method_

RemoveOp(k) ==
    /\ count_ > -MaxCount
    /\ tainted < MaxTainted
    /\ \E r \in {Remove(heap, root_, count_, k)} :
           /\ r.status # "hang"
           /\ Store(r.heap, r.root,
                    IF r.removed # NULL THEN freed \cup {r.removed} ELSE freed)
           /\ count_' = r.count
           /\ ref' = IF r.status = "ok" THEN [ref EXCEPT ![k] = NoValue] ELSE ref
           /\ net' = IF r.status = "ok" THEN net - 1 ELSE net
           /\ last' = Last("Remove", k, r.status,
                            IF r.status = "ok" THEN r.entry ELSE NoEntry,
                            r.path, r.rotations)
    /\ tainted' = IF tainted > 0 THEN tainted + 1
                  ELSE IF freed' # {} THEN 1 ELSE 0
    /\ out' = <<>>
    /\ UNCHANGED traversal_method_

GetOp(k) ==
    /\ \E n \in {GetNode(heap, root_, k, Fuel)} :
           /\ n # Lost
           /\ last' = Last("Get", k,
                            IF n = NULL THEN "KeyNotFound" ELSE "ok",
                            IF n = NULL THEN NoEntry ELSE GetMapEntry(heap, n),
                            "none", <<>>)
    /\ out' = <<>>
    /\ UNCHANGED <<heap, freed, root_, count_, traversal_method_, ref, net, tainted>>

GetMinKeyOp ==
    /\ \E r \in {GetMinKey(heap, root_)} :
           /\ r.status # "hang"
           /\ last' = Last("GetMinKey", r.key, r.status, NoEntry, "none", <<>>)
    /\ out' = <<>>
    /\ UNCHANGED <<heap, freed, root_, count_, traversal_method_, ref, net, tainted>>

GetMaxKeyOp ==
    /\ \E r \in {GetMaxKey(heap, root_)} :
           /\ r.status # "hang"
           /\ last' = Last("GetMaxKey", r.key, r.status, NoEntry, "none", <<>>)
    /\ out' = <<>>
    /\ UNCHANGED <<heap, freed, root_, count_, traversal_method_, ref, net, tainted>>

GetCountOp ==
    /\ last' = Last("GetCount", GetCount, "ok", NoEntry, "none", <<>>)
    /\ out' = <<>>
    /\ UNCHANGED <<heap, freed, root_, count_, traversal_method_, ref, net, tainted>>

GetTreeHieightOp ==
    /\ last' = Last("GetTreeHieight", GetTreeHieight(heap, root_), "ok",
                     NoEntry, "none", <<>>)
    /\ out' = <<>>
    /\ UNCHANGED <<heap, freed, root_, count_, traversal_method_, ref, net, tainted>>

GetTreeBalanceFactorOp ==
    /\ last' = Last("GetTreeBalanceFactor", GetTreeBalanceFactor(heap, root_), "ok",
                     NoEntry, "none", <<>>)
    /\ out' = <<>>
    /\ UNCHANGED <<heap, freed, root_, count_, traversal_method_, ref, net, tainted>>

\* A faulty Clear that drops the root and leaves the count as it was.
ClearOp_KeepsCount ==
    /\ root_' = NULL
    /\ heap' = [a \in Addr |-> Blank]
    /\ freed' = {}
    /\ ref' = [k \in TreeKeys |-> NoValue]
    /\ net' = 0
    /\ tainted' = 0
    /\ last' = Last("Clear", 0, "ok", NoEntry,
                     IF root_ = NULL THEN "none" ELSE "dropped", <<>>)
    /\ out' = <<>>
    /\ UNCHANGED <<count_, traversal_method_>>

ClearOp ==
    /\ root_' = NULL
    /\ count_' = 0
    /\ heap' = [a \in Addr |-> Blank]
    /\ freed' = {}
    /\ ref' = [k \in TreeKeys |-> NoValue]
    /\ net' = 0
    /\ tainted' = 0
    /\ last' = Last("Clear", 0, "ok", NoEntry,
                     IF root_ = NULL THEN "none" ELSE "dropped", <<>>)
    /\ out' = <<>>
    /\ UNCHANGED traversal_method_

SetTraversalMethodOp(m) ==
    /\ traversal_method_' = m
    /\ last' = Last("SetTraversalMethod", 0, "ok", NoEntry, "none", <<>>)
    /\ out' = <<>>
    /\ UNCHANGED <<heap, freed, root_, count_, ref, net, tainted>>

\* A faulty iteration that leaves the tree's selector on InOrder.
IterateOp_ResetsMethod ==
    /\ \E r \in {Iterate(heap, root_, traversal_method_)} :
           /\ ~r.hang
           /\ out' = r.out
    /\ last' = Last("Iterate", 0, "ok", NoEntry, "none", <<>>)
    /\ traversal_method_' = "InOrder"
    /\ UNCHANGED <<heap, freed, root_, count_, ref, net, tainted>>

\* for (auto me : tree) in the selected traversal order
IterateOp ==
    /\ \E r \in {Iterate(heap, root_, traversal_method_)} :
           /\ ~r.hang
           /\ out' = r.out
    /\ last' = Last("Iterate", 0, "ok", NoEntry, "none", <<>>)
    /\ UNCHANGED <<heap, freed, root_, count_, traversal_method_, ref, net, tainted>>

Next ==
    \/ \E k \in Keys, v \in Values, node \in Addr : AddOp(k, v, node)
    \/ \E k \in Keys : RemoveOp(k)
    \/ \E k \in Keys : GetOp(k)
    \/ GetMinKeyOp
    \/ GetMaxKeyOp
    \/ GetCountOp
    \/ GetTreeHieightOp
    \/ GetTreeBalanceFactorOp
    \/ ClearOp
    \/ \E m \in Methods : SetTraversalMethodOp(m)
    \/ IterateOp

Spec == Init /\ [][Next]_vars

\* A client that fills a new tree with up to MaxTreeKey keys and then removes
\* one of them: every tree Add can build is the tree of the Remove.
GrowAddOp(k, node) ==
    /\ last.op # "Remove"
    /\ AddOp(k, "a", node)

GrowRemoveOp(k) ==
    /\ last.op # "Remove"
    /\ RemoveOp(k)

NextGrow ==
    \/ \E k \in TreeKeys, node \in Addr : GrowAddOp(k, node)
    \/ \E k \in TreeKeys : GrowRemoveOp(k)

SpecGrow == Init /\ [][NextGrow]_vars

----------------------------------------------------------------------------
(* Vocabulary of the properties.                                           *)

\* The addresses linked from the root.
Nodes == Range(Linked(heap, root_))

Max(a, b) == IF a > b THEN a ELSE b

\* The true height of the subtree at n: -1 for an absent child, 0 for a leaf.
\* Links that do not end within Fuel steps count as a height no tree has.
RECURSIVE TrueHeight(_, _, _)
TrueHeight(h, n, fuel) ==
    IF n = NULL THEN -1
    ELSE IF fuel = 0 THEN 2 * MaxNodes
    ELSE 1 + Max(TrueHeight(h, h[n].left, fuel - 1), TrueHeight(h, h[n].right, fuel - 1))

\* The addresses of the subtree at n.
SubtreeNodes(h, n) == Range(Linked(h, n))

SubtreeKeys(h, n) == {h[a].key : a \in SubtreeNodes(h, n)}

\* The entries a walk over the links from the root can see.
Entries == {GetMapEntry(heap, a) : a \in Nodes}

\* The entries of the reference map.
RefEntries == {[key |-> k, value |-> ref[k]] : k \in {x \in TreeKeys : ref[x] # NoValue}}

Reverse(s) == [i \in 1..Len(s) |-> s[Len(s) + 1 - i]]

KeysOf(s) == [i \in 1..Len(s) |-> heap[s[i]].key]

StrictlyIncreasing(s) == \A i \in 1..(Len(s) - 1) : s[i] < s[i + 1]

Distinct(s) == \A i, j \in 1..Len(s) : i # j => s[i] # s[j]

\* The node Get(k) finds is there and holds value v.
Holds(k, v) ==
    LET n == GetNode(heap, root_, k, Fuel)
    IN  n \in Addr /\ heap[n].value = v

Present(k) == GetNode(heap, root_, k, Fuel) \in Addr

Absent(k) == GetNode(heap, root_, k, Fuel) = NULL

\* No Remove has left a deleted node linked since construction or Clear.
Sound == tainted = 0

----------------------------------------------------------------------------
(* The properties.                                                         *)

\* C1: after every successful Add or Remove, every node linked from the
\* root has true subtree heights of its children differing by at most 1.
C1_AVLInvariant ==
    (last.op \in {"Add", "Remove"} /\ last.status = "ok") =>
        \A a \in Nodes :
            TrueHeight(heap, heap[a].left, Fuel) - TrueHeight(heap, heap[a].right, Fuel)
                \in {-1, 0, 1}

\* C2: for every node linked from the root, every key of its left subtree is
\* smaller than its key and every key of its right subtree is larger, and
\* the in-order walk yields strictly increasing keys.
C2_BSTInvariant ==
    /\ \A a \in Nodes :
        /\ \A k \in SubtreeKeys(heap, heap[a].left) : k < heap[a].key
        /\ \A k \in SubtreeKeys(heap, heap[a].right) : k > heap[a].key
    /\ LET it == Iterate(heap, root_, "InOrder")
       IN  ~it.hang /\ StrictlyIncreasing(KeysOf(it.out))

\* C3: Get(k) returns Entry{k, v} exactly when the reference map holds v for
\* k, and fails with KeyNotFound for every other key.
C3_GetAgreesWithReference ==
    last.op = "Get" =>
        IF ref[last.key] # NoValue
        THEN last.status = "ok" /\ last.entry = [key |-> last.key, value |-> ref[last.key]]
        ELSE last.status = "KeyNotFound"

\* C4: Remove(k) on a tree that holds k with value v returns Entry{k, v} and
\* leaves exactly the prior entries minus k linked from the root.
C4_RemoveReturnsAndDropsOnlyK ==
    [][\A k \in Keys, v \in Values :
          (RemoveOp(k) /\ Holds(k, v)) =>
              /\ last'.status = "ok"
              /\ last'.entry = [key |-> k, value |-> v]
              /\ Entries' = Entries \ {[key |-> k, value |-> v]}]_vars

\* C5: Add(k, v) when k is present fails with DuplicateKey and leaves the
\* shape, every cached height, the count and the stored values as they were.
C5_DuplicateAddChangesNothing ==
    [][\A k \in Keys, v \in Values, node \in Addr :
          (AddOp(k, v, node) /\ Present(k)) =>
              /\ last'.status = "DuplicateKey"
              /\ UNCHANGED <<heap, root_, count_>>]_vars

\* C6: GetCount() equals the successful Adds minus the successful Removes
\* since the last Clear (or construction); failed calls do not change it.
C6_CountIsAddsMinusRemoves == GetCount = net

\* A successful Remove that leaves two of three added entries counted.
C6_Witness ==
    /\ last.op = "Remove"
    /\ last.status = "ok"
    /\ GetCount = 2
    /\ Cardinality(RefEntries) = 2

\* C7: Remove(k) of an absent key reports a not-found failure and changes
\* nothing.
C7_RemoveAbsentFails ==
    [][\A k \in Keys :
          (RemoveOp(k) /\ Absent(k)) =>
              /\ last'.status = "KeyNotFound"
              /\ UNCHANGED <<heap, root_, count_>>]_vars

\* C8: a full InOrder iteration yields every stored entry exactly once, in
\* strictly increasing key order, GetCount() entries in all.
C8_InOrderIteration ==
    (last.op = "Iterate" /\ traversal_method_ = "InOrder") =>
        /\ Distinct(out)
        /\ StrictlyIncreasing(KeysOf(out))
        /\ {GetMapEntry(heap, a) : a \in Range(out)} = RefEntries
        /\ Len(out) = GetCount

\* C9: the keys of a full ReverseOrder iteration are the keys of a full
\* InOrder iteration of the same tree, reversed.
C9_ReverseIsReversedInOrder ==
    LET asc  == Iterate(heap, root_, "InOrder")
        desc == Iterate(heap, root_, "ReverseOrder")
    IN  (~asc.hang /\ ~desc.hang) => KeysOf(desc.out) = Reverse(KeysOf(asc.out))

\* A full ReverseOrder iteration of a four-entry tree whose root has both
\* children.
C9_Witness ==
    /\ last.op = "Iterate"
    /\ traversal_method_ = "ReverseOrder"
    /\ Sound
    /\ KeysOf(out) = <<4, 3, 2, 1>>
    /\ heap[root_].left # NULL
    /\ heap[root_].right # NULL

\* The depth of address a below the root (the root is at depth 0).
RECURSIVE DepthFrom(_, _, _)
DepthFrom(n, a, fuel) ==
    IF n = NULL \/ fuel = 0 THEN 2 * MaxNodes
    ELSE IF n = a THEN 0
    ELSE LET l == DepthFrom(heap[n].left, a, fuel - 1)
             r == DepthFrom(heap[n].right, a, fuel - 1)
         IN  1 + (IF l < r THEN l ELSE r)

Depth(a) == DepthFrom(root_, a, Fuel)

Pos(s, a) == CHOOSE i \in 1..Len(s) : s[i] = a

\* C10: a full TopDown iteration yields every stored entry exactly once, the
\* root first, in non-decreasing depth, every node before its children and
\* a left child before its right sibling.
C10_TopDownIteration ==
    (last.op = "Iterate" /\ traversal_method_ = "TopDown") =>
        /\ Distinct(out)
        /\ {GetMapEntry(heap, a) : a \in Range(out)} = RefEntries
        /\ Len(out) = Cardinality(RefEntries)
        /\ (out # <<>> => out[1] = root_)
        /\ \A i \in 1..(Len(out) - 1) : Depth(out[i]) <= Depth(out[i + 1])
        /\ \A a \in Range(out) :
            /\ heap[a].left # NULL =>
                 heap[a].left \in Range(out) /\ Pos(out, a) < Pos(out, heap[a].left)
            /\ heap[a].right # NULL =>
                 heap[a].right \in Range(out) /\ Pos(out, a) < Pos(out, heap[a].right)
            /\ (heap[a].left # NULL /\ heap[a].right # NULL) =>
                 Pos(out, heap[a].left) < Pos(out, heap[a].right)

\* The keys the reference map holds.
RefKeys == {k \in TreeKeys : ref[k] # NoValue}

\* C11: on a non-empty tree GetMinKey() returns the smallest stored key and
\* GetMaxKey() the largest.
C11_MinMaxKey ==
    /\ (last.op = "GetMinKey" /\ RefKeys # {}) =>
           /\ last.status = "ok"
           /\ last.key \in RefKeys
           /\ \A k \in RefKeys : last.key <= k
    /\ (last.op = "GetMaxKey" /\ RefKeys # {}) =>
           /\ last.status = "ok"
           /\ last.key \in RefKeys
           /\ \A k \in RefKeys : last.key >= k

\* C12: GetMinKey() and GetMaxKey() on an empty tree fail with an explicit
\* error; they return no sentinel.
C12_MinMaxOnEmptyFails ==
    (last.op \in {"GetMinKey", "GetMaxKey"} /\ root_ = NULL) =>
        last.status = "EmptyTree"

\* C13: Clear() leaves no root and a count of 0, so that Get of every key
\* fails and iteration in every mode yields nothing; the traversal method is
\* kept, and the tree is the one a constructor leaves, so that every Add
\* behaves as on a new tree.
C13_ClearEmptiesTheTree ==
    [][ClearOp =>
          /\ root_' = NULL
          /\ GetCount' = 0
          /\ \A k \in Keys : GetNode(heap', root_', k, Fuel) = NULL
          /\ \A m \in Methods : Iterate(heap', root_', m) = [out |-> <<>>, hang |-> FALSE]
          /\ UNCHANGED traversal_method_
          /\ heap' = [a \in Addr |-> Blank]
          /\ freed' = {}
          /\ \A k \in Keys, v \in Values :
                 Add(heap', root_', count_', k, v, FreshAddr(heap', root_'))
                     = Add([a \in Addr |-> Blank], NULL, 0, k, v, 1)]_vars

\* A Clear that dropped a tree holding entries.
C13_Witness ==
    /\ last.op = "Clear"
    /\ last.path = "dropped"
    /\ root_ = NULL
    /\ GetCount = 0

\* Adds the entries of the nodes `order` of heap `src`, in that order, to the
\* tree `acc` = [ok, heap, root, count, rotations], every new node at the
\* next unused address; stops at the first Add that fails.
RECURSIVE Reload(_, _, _)
Reload(src, order, acc) ==
    LET Step(r) ==
            IF r.status = "ok"
            THEN Reload(src, Tail(order),
                        [ok |-> TRUE, heap |-> r.heap, root |-> r.root, count |-> r.count,
                         rotations |-> acc.rotations \o r.rotations])
            ELSE [acc EXCEPT !.ok = FALSE]
    IN  IF order = <<>>
        THEN acc
        ELSE IF acc.count >= MaxNodes
        THEN [acc EXCEPT !.ok = FALSE]
        ELSE Step(Add(acc.heap, acc.root, acc.count, src[Head(order)].key,
                      src[Head(order)].value, acc.count + 1))

\* The tree built from an empty one by the Adds of a TopDown iteration `it`
\* of the current tree.
Reloaded(it) ==
    IF it.hang
    THEN [ok |-> FALSE, heap |-> heap, root |-> root_, count |-> 0, rotations |-> <<>>]
    ELSE Reload(heap, it.out,
                [ok |-> TRUE, heap |-> [a \in Addr |-> Blank], root |-> NULL, count |-> 0,
                 rotations |-> <<>>])

\* The tree that `r` holds, with its nodes numbered in breadth-first order.
ShapeOf(r) == Normalize(r.heap, r.root, {})

\* C14: adding the entries of a tree to an empty tree in the order of its
\* TopDown iteration succeeds at every step, invokes no rotation and builds
\* a tree of the same root, links, entries and heights.
C14_BulkReloadRoundTrip ==
    \E r \in {Reloaded(Iterate(heap, root_, "TopDown"))} :
        /\ r.ok
        /\ r.rotations = <<>>
        /\ \E N \in {ShapeOf(r)} : N.heap = heap /\ N.root = root_

\* The least n >= 0 with h <= 1.44 * log2(n + 2) - 0.328:
\* 1.44 * log2(2) - 0.328 = 1.112, log2(3): 1.954, log2(4): 2.552,
\* log2(5): 3.016, log2(8): 3.992, log2(9): 4.237, log2(12): 4.834,
\* log2(13): 5.001, log2(21): 5.997, log2(22): 6.094.
LogBoundMinKeys(h) ==
    CASE h <= 1 -> 0
      [] h = 2 -> 2
      [] h = 3 -> 3
      [] h = 4 -> 7
      [] h = 5 -> 11
      [] OTHER -> 20

\* N(0) = 1, N(1) = 2, N(h) = 1 + N(h - 1) + N(h - 2), computed upwards:
\* `a` is N(i) and `b` is N(i + 1).
RECURSIVE MinAVLNodesFrom(_, _, _, _)
MinAVLNodesFrom(h, i, a, b) ==
    IF i >= h THEN a ELSE MinAVLNodesFrom(h, i + 1, b, 1 + a + b)

MinAVLNodes(h) == MinAVLNodesFrom(h, 0, 1, 2)

\* C15: the height GetTreeHieight() reports for a tree holding n keys is at
\* most 1.44 * log2(n + 2) - 0.328, and a non-empty tree of reported height
\* h holds at least N(h) keys.
C15_HeightBound ==
    /\ Cardinality(RefKeys) >= LogBoundMinKeys(GetTreeHieight(heap, root_))
    /\ root_ # NULL => Cardinality(RefKeys) >= MinAVLNodes(GetTreeHieight(heap, root_))

\* The cached height of the child at address c, -1 for an absent child.
CachedHeight(c) == IF c = NULL THEN -1 ELSE heap[c].height

\* C16: after every completed Add or Remove, the cached height of every node
\* linked from the root is 1 + the larger cached height of its children, an
\* absent child counting as -1.
C16_CachedHeights ==
    (last.op \in {"Add", "Remove"} /\ last.status = "ok") =>
        \A a \in Nodes :
            heap[a].height
                = 1 + Max(CachedHeight(heap[a].left), CachedHeight(heap[a].right))

\* The search of Remove(k) on the current tree: the node found, its parent
\* and the ancestor stack.
Found(k) == RemoveSearch(heap, k, root_, NULL, <<NULL>>, Fuel)

\* Remove(k) finds a node that falls under structural case `c`.
Applies(k, c) ==
    \E s \in {Found(k)} :
        ~s.hang /\ s.current # NULL /\ RemoveCase(heap, s.current) = c

\* In tree sp, `node` occupies the slot that `old` occupies in the current
\* tree under `parent` (the root slot for no parent).
Occupies(sp, node, old, parent) ==
    IF parent = NULL
    THEN sp.root = node
    ELSE /\ heap[parent].left = old => sp.heap[parent].left = node
         /\ heap[parent].right = old => sp.heap[parent].right = node

\* In tree sp, the slot of `parent` that does not hold `old` in the current
\* tree is as it was.
OtherSlotKept(sp, old, parent) ==
    parent # NULL =>
        /\ heap[parent].right # old => sp.heap[parent].right = heap[parent].right
        /\ heap[parent].left # old => sp.heap[parent].left = heap[parent].left

\* C17: Remove of a node without right child puts its left child in the slot
\* the node occupied (the parent's left slot, its right slot or the root) and
\* leaves the parent's other slot unchanged.
C17_Case1PromotesLeftChild ==
    [][\A k \in Keys :
          (Applies(k, "case1") /\ RemoveOp(k)) =>
              \E s \in {Found(k)} :
                  \E sp \in {Splice([heap |-> heap, root |-> root_],
                                     s.current, s.parent, s.stack)} :
                      /\ Occupies(sp, heap[s.current].left, s.current, s.parent)
                      /\ OtherSlotKept(sp, s.current, s.parent)]_vars

\* The right child of `current` and its left descendants, top-down: the last
\* one is the left-most node of the right subtree.
RightLeftSpine(current) == PushLefts(heap, heap[current].right, <<>>, Fuel)

\* Node b is yielded right after node a by a full InOrder iteration.
FollowsInOrder(a, b) ==
    \E it \in {Iterate(heap, root_, "InOrder")} :
        it.hang \/ \E i \in 1..(Len(it.out) - 1) : it.out[i] = a /\ it.out[i + 1] = b

\* In tree sp the successor of `current` (the last node of `spine`) has
\* taken the place of `current`.
SuccessorSpliced(sp, current, parent, spine) ==
    /\ Top(spine) # Lost
    /\ FollowsInOrder(current, Top(spine))
    /\ Occupies(sp, Top(spine), current, parent)
    /\ sp.heap[Top(spine)].left = heap[current].left
    /\ Len(spine) > 1 =>
          /\ sp.heap[Top(spine)].right = heap[current].right
          /\ sp.heap[spine[Len(spine) - 1]].left = heap[Top(spine)].right

\* C18: Remove of a node with a right child puts, before rebalancing, the
\* left-most node of its right subtree (its in-order successor) in the
\* node's slot, with the node's left subtree as its left child; when the
\* successor is not the node's right child it also takes the node's right
\* child, and its former right subtree becomes the left child of its former
\* parent.
C18_SuccessorReplacesRemoved ==
    [][\A k \in TreeKeys :
          ((Applies(k, "case2") \/ Applies(k, "case3")) /\ RemoveOp(k)) =>
              \E s \in {Found(k)} :
                  SuccessorSpliced(Splice([heap |-> heap, root |-> root_],
                                          s.current, s.parent, s.stack),
                                   s.current, s.parent, RightLeftSpine(s.current))]_vars

\* A Remove of the general case on a tree no Remove has damaged: the
\* successor was not the removed node's right child and had a right subtree
\* of its own.
C18_Witness ==
    /\ last.op = "Remove"
    /\ last.status = "ok"
    /\ last.path = "case3 successor has right"
    /\ Sound

\* The number of owners of node n: the child slots of linked nodes that hold
\* its address, and the root pointer.
Owners(n) ==
    Cardinality({p \in Nodes : heap[p].left = n})
        + Cardinality({p \in Nodes : heap[p].right = n})
        + (IF root_ = n THEN 1 ELSE 0)

\* C19: after any sequence of Add, Remove and Clear every linked node has
\* exactly one owner (one child slot of a linked node, or the root pointer),
\* no chain of child pointers returns to a node, and no node that Remove
\* deleted is still held by the root or by a child slot of a linked node.
C19_OwnershipIsTreeShaped ==
    /\ \A n \in Nodes : Owners(n) = 1
    /\ \A n \in Nodes : TrueHeight(heap, n, Fuel) < MaxNodes
    /\ freed \cap Nodes = {}

\* One invocation of a rotation: which one, the tree [heap, root] it is
\* invoked on, and its two arguments.
Call(kind, T, node, parent) == [kind |-> kind, T |-> T, node |-> node, parent |-> parent]

\* The rotations invoked for one popped node of the unwind loop, T1 being
\* the tree once the node's height has been recomputed.
CallsAt(T1, current, parent) ==
    IF GetBalanceFactor(T1.heap, current) > 1
    THEN IF GetBalanceFactor(T1.heap, T1.heap[current].left) < 0
         THEN <<Call("RotateLeft", T1, T1.heap[current].left, current),
                Call("RotateRight", RotateLeft(T1, T1.heap[current].left, current),
                     current, parent)>>
         ELSE <<Call("RotateRight", T1, current, parent)>>
    ELSE IF GetBalanceFactor(T1.heap, current) < -1
    THEN IF GetBalanceFactor(T1.heap, T1.heap[current].right) > 0
         THEN <<Call("RotateRight", T1, T1.heap[current].right, current),
                Call("RotateLeft", RotateRight(T1, T1.heap[current].right, current),
                     current, parent)>>
         ELSE <<Call("RotateLeft", T1, current, parent)>>
    ELSE <<>>

\* Every rotation invoked by the unwind loop that starts at `current` on
\* tree T with the ancestors in `stack`, in order.
RECURSIVE RotationCalls(_, _, _)
RotationCalls(T, current, stack) ==
    IF current = NULL
    THEN <<>>
    ELSE CallsAt([heap |-> CalculateHeight(T.heap, current), root |-> T.root],
                 current, Top(stack))
             \o RotationCalls(Rebalance(T, current, stack), Top(stack), Pop(stack))

\* The rotations invoked by Add(k, v) on the current tree, `node` being the
\* address of the new node.
AddRotationCalls(k, v, node) ==
    LET h0 == [heap EXCEPT ![node] = NewNode(k, v)]
        Calls(s) ==
            IF s.hang \/ s.dup
            THEN <<>>
            ELSE RotationCalls(AddAttach(h0, root_, node, s.parent),
                               Top(s.stack), Pop(s.stack))
    IN  Calls(AddSearch(h0, node, root_, NULL, <<NULL>>, Fuel))

\* The rotations invoked by Remove(k) on the current tree.
RemoveRotationCalls(k) ==
    LET Calls(sp) ==
            IF sp.hang THEN <<>>
            ELSE RotationCalls([heap |-> sp.heap, root |-> sp.root],
                               Top(sp.stack), Pop(sp.stack))
        Spliced(s) ==
            IF s.hang \/ s.current = NULL
            THEN <<>>
            ELSE Calls(Splice([heap |-> heap, root |-> root_],
                              s.current, s.parent, s.stack))
    IN  Spliced(Found(k))

\* The keys of the subtree at n in heap h, left subtree first; Lost stands
\* for the rest of a chain of child pointers that does not end.
RECURSIVE InOrderKeys(_, _, _)
InOrderKeys(h, n, fuel) ==
    IF n = NULL THEN <<>>
    ELSE IF fuel = 0 THEN <<Lost>>
    ELSE InOrderKeys(h, h[n].left, fuel - 1) \o <<h[n].key>>
             \o InOrderKeys(h, h[n].right, fuel - 1)

\* The node's cached height is 1 + the larger cached height of its children.
HeightConsistent(h, n) ==
    LET Cached(c) == IF c = NULL THEN -1 ELSE h[c].height
    IN  h[n].height = 1 + Max(Cached(h[n].left), Cached(h[n].right))

\* What a rotation invocation c has to achieve: R is the tree it gives and
\* `child` the child of c.node that is to become the subtree root.
Rotated(c, R, child) ==
    /\ Lost \notin Range(InOrderKeys(c.T.heap, c.T.root, Fuel)) =>
           InOrderKeys(R.heap, R.root, Fuel) = InOrderKeys(c.T.heap, c.T.root, Fuel)
    /\ IF c.parent = NULL
       THEN R.root = child
       ELSE /\ R.root = c.T.root
            /\ c.T.heap[c.parent].left = c.node => R.heap[c.parent].left = child
            /\ c.T.heap[c.parent].right = c.node => R.heap[c.parent].right = child
    /\ HeightConsistent(R.heap, c.node)
    /\ HeightConsistent(R.heap, child)

RotationDoesAsClaimed(c) ==
    IF c.kind = "RotateRight"
    THEN Rotated(c, RotateRight(c.T, c.node, c.parent), c.T.heap[c.node].left)
    ELSE Rotated(c, RotateLeft(c.T, c.node, c.parent), c.T.heap[c.node].right)

AllAsClaimed(calls) == \A i \in 1..Len(calls) : RotationDoesAsClaimed(calls[i])

\* The step is a call of operation op with key k.
Did(op, k) == last'.op = op /\ last'.key = k

\* C20: every RotateRight and RotateLeft invoked while Add or Remove unwinds
\* keeps the in-order key sequence of the whole tree, puts the former left
\* (resp. right) child of its node in the slot of the parent that the node
\* occupied (the root for no parent), and leaves the cached heights of both
\* rotated nodes equal to 1 + the larger cached height of their children.
C20_RotationsPreserveOrderSlotAndHeights ==
    [][/\ \A k \in TreeKeys, v \in Values, node \in Addr :
             (Did("Add", k) /\ AddOp(k, v, node))
                 => AllAsClaimed(AddRotationCalls(k, v, node))
       /\ \A k \in TreeKeys :
             (Did("Remove", k) /\ RemoveOp(k))
                 => AllAsClaimed(RemoveRotationCalls(k))]_vars

\* Every node linked from the root has subtrees whose true heights differ by
\* at most 1.
Balanced ==
    \A a \in Nodes :
        TrueHeight(heap, heap[a].left, Fuel) - TrueHeight(heap, heap[a].right, Fuel)
            \in {-1, 0, 1}

\* The point where the unwind of Add(k, v) starts on the current tree: the
\* tree T with the new node attached and the stack of the descent; `ok` is
\* false when Add does not get that far.
AddUnwindStart(k, v, node) ==
    LET h0 == [heap EXCEPT ![node] = NewNode(k, v)]
        Start(s) ==
            [ok |-> ~s.hang /\ ~s.dup,
             T |-> IF s.hang \/ s.dup
                   THEN [heap |-> h0, root |-> root_]
                   ELSE AddAttach(h0, root_, node, s.parent),
             stack |-> s.stack]
    IN  Start(AddSearch(h0, node, root_, NULL, <<NULL>>, Fuel))

\* The nodes the unwind loop pops, in order, each with the balance factor
\* found once its height is recomputed and the stack top at that moment.
RECURSIVE Examined(_, _, _)
Examined(T, current, stack) ==
    IF current = NULL
    THEN <<>>
    ELSE <<[node |-> current,
            bf |-> GetBalanceFactor(CalculateHeight(T.heap, current), current),
            T |-> [heap |-> CalculateHeight(T.heap, current), root |-> T.root],
            parent |-> Top(stack)]>>
             \o Examined(Rebalance(T, current, stack), Top(stack), Pop(stack))

IsParent(h, p, c) == p # NULL /\ (h[p].left = c \/ h[p].right = c)

\* e examines, bottom-up, every ancestor that `node` has in tree T: first
\* its parent, then the parent of each examined node, last the root.
ExaminesAllAncestors(e, T, node) ==
    IF T.root = node
    THEN e = <<>>
    ELSE /\ Len(e) > 0
         /\ IsParent(T.heap, e[1].node, node)
         /\ \A i \in 1..(Len(e) - 1) : IsParent(T.heap, e[i + 1].node, e[i].node)
         /\ e[Len(e)].node = T.root

\* C21: a successful Add on a tree that satisfies the AVL invariant finds a
\* balance factor outside [-1, 1], and so invokes a rotation (single or
\* double), at at most one of the nodes its unwind examines; every other
\* examined node is found within [-1, 1]; the unwind examines every ancestor
\* of the new node, up to the root.
C21_AddRotatesAtMostOnce ==
    [][\A k \in TreeKeys, v \in Values, node \in Addr :
          (Did("Add", k) /\ last'.status = "ok" /\ Balanced /\ AddOp(k, v, node)) =>
              \E st \in {AddUnwindStart(k, v, node)} :
                  \E e \in {Examined(st.T, Top(st.stack), Pop(st.stack))} :
                      /\ Cardinality({i \in 1..Len(e) : e[i].bf \notin {-1, 0, 1}}) <= 1
                      /\ Len(last'.rotations)
                            = Cardinality({i \in 1..Len(e) : e[i].bf \notin {-1, 0, 1}})
                      /\ ExaminesAllAncestors(e, st.T, node)]_vars

\* An Add that rotated at a node below the root: the rotated node ends one
\* level below the node that took its place, so at depth 2 or more, and the
\* unwind went on to examine the ancestors above the rotation.
C21_Witness ==
    /\ last.op = "Add"
    /\ last.status = "ok"
    /\ Len(last.rotations) = 1
    /\ \E a \in Nodes : heap[a].key = last.rotations[1].key /\ Depth(a) >= 2
    /\ Sound

\* A step of a lookup or observation operation.
Observation ==
    \/ \E k \in Keys : GetOp(k)
    \/ GetMinKeyOp
    \/ GetMaxKeyOp
    \/ GetCountOp
    \/ GetTreeHieightOp
    \/ GetTreeBalanceFactorOp
    \/ IterateOp

\* C22: Get (found or not), GetMinKey, GetMaxKey, GetCount, GetTreeHieight,
\* GetTreeBalanceFactor and a full iteration in any mode leave the root,
\* every node's key, value, children and cached height, the count and the
\* traversal-method selector as they were.
C22_ObservationsAreReadOnly ==
    [][UNCHANGED <<heap, root_, count_, traversal_method_>> \/ ~Observation]_vars

\* A full ReverseOrder iteration of a tree of at least three nodes.
C22_Witness ==
    /\ last.op = "Iterate"
    /\ traversal_method_ = "ReverseOrder"
    /\ Len(out) >= 3
    /\ Sound

\* C23: after any sequence of Add, Remove and Clear, GetCount() is the number
\* of nodes linked from the root and the number of entries a full traversal
\* yields in every mode, and the keys linked from the root are the keys added
\* and not removed: no node but the removed one is ever detached.
C23_CountIsReachableNodes ==
    /\ GetCount = Cardinality(Nodes)
    /\ \A m \in Methods :
          \E it \in {Iterate(heap, root_, m)} : ~it.hang /\ Len(it.out) = GetCount
    /\ {heap[a].key : a \in Nodes} = RefKeys

\* C24: in each of the three traversal modes begin() of an empty tree equals
\* end(), and on a tree holding n entries the iterator started at begin()
\* equals end() after exactly n advances, every position before that being a
\* node that is linked from the root and has not been deleted.
C24_IterationTerminates ==
    \A m \in Methods :
        /\ root_ = NULL => Begin(heap, root_, m).current = End(heap, m).current
        /\ \E it \in {Iterate(heap, root_, m)} :
               /\ ~it.hang
               /\ Len(it.out) = Cardinality(RefEntries)
               /\ \A i \in 1..Len(it.out) : it.out[i] \in Nodes \ freed

\* The number of edges on the longest path from n down to a leaf, over the
\* nodes that have not been deleted; -1 for no node.
RECURSIVE LiveHeight(_, _)
LiveHeight(n, fuel) ==
    IF n = NULL \/ n \in freed THEN -1
    ELSE IF fuel = 0 THEN 2 * MaxNodes
    ELSE 1 + Max(LiveHeight(heap[n].left, fuel - 1), LiveHeight(heap[n].right, fuel - 1))

\* C25: GetTreeHieight() returns the root's cached height, which is the true
\* height of every non-empty tree, and 0 for an empty tree;
\* GetTreeBalanceFactor() returns the root's balance factor, which is within
\* [-1, 1], and 0 for an empty tree.
C25_TreeHeightAndBalanceFactor ==
    /\ last.op = "GetTreeHieight" =>
          last.key = (IF root_ = NULL THEN 0 ELSE heap[root_].height)
    /\ last.op = "GetTreeBalanceFactor" =>
          last.key = (IF root_ = NULL THEN 0
                      ELSE CachedHeight(heap[root_].left) - CachedHeight(heap[root_].right))
    /\ root_ # NULL => GetTreeHieight(heap, root_) = LiveHeight(root_, Fuel)
    /\ GetTreeBalanceFactor(heap, root_) \in {-1, 0, 1}

\* The nodes the unwind of Remove(k) examines on the current tree.
RemoveExamined(k) ==
    LET Unwound(sp) ==
            IF sp.hang THEN <<>>
            ELSE Examined([heap |-> sp.heap, root |-> sp.root],
                          Top(sp.stack), Pop(sp.stack))
        Spliced(s) ==
            IF s.hang \/ s.current = NULL
            THEN <<>>
            ELSE Unwound(Splice([heap |-> heap, root |-> root_],
                                s.current, s.parent, s.stack))
    IN  Spliced(Found(k))

\* The nodes the unwind of Add(k, v) examines on the current tree.
AddExamined(k, v, node) ==
    LET Unwound(st) ==
            IF st.ok THEN Examined(st.T, Top(st.stack), Pop(st.stack)) ELSE <<>>
    IN  Unwound(AddUnwindStart(k, v, node))

\* What holds of the examined nodes e of one unwind: each is examined before
\* its ancestors, a rotation on an examined node is handed the node's parent
\* in the tree (no parent exactly for the root), and the pop that ends the
\* loop is the one that empties the stack.
UnwindAsClaimed(e) ==
    /\ \A i \in 1..(Len(e) - 1) :
          e[i].node \in SubtreeNodes(e[i + 1].T.heap, e[i + 1].node) \ {e[i + 1].node}
    /\ \A i \in 1..Len(e) :
          e[i].bf \notin {-1, 0, 1} =>
              /\ e[i].parent = NULL <=> e[i].T.root = e[i].node
              /\ e[i].parent # NULL => IsParent(e[i].T.heap, e[i].parent, e[i].node)
    /\ \A i \in 1..Len(e) : e[i].parent = NULL <=> i = Len(e)

\* C26: the unwind of Add and of Remove examines each popped node before its
\* ancestors; when it rotates the popped node, the stack top it passes as
\* parent is the node's parent in the tree, or the null sentinel exactly when
\* the node is the root; it ends when the null sentinel is popped.
C26_UnwindPassesTheParent ==
    [][/\ \A k \in TreeKeys, v \in Values, node \in Addr :
             (Did("Add", k) /\ AddOp(k, v, node))
                 => UnwindAsClaimed(AddExamined(k, v, node))
       /\ \A k \in TreeKeys :
             (Did("Remove", k) /\ RemoveOp(k))
                 => UnwindAsClaimed(RemoveExamined(k))]_vars

\* A Remove whose unwind rotated a node below the root: the rotated node
\* ends at depth 2 or more.
C26_Witness ==
    /\ last.op = "Remove"
    /\ last.status = "ok"
    /\ Len(last.rotations) >= 1
    /\ \E a \in Nodes : heap[a].key = last.rotations[1].key /\ Depth(a) >= 2
    /\ Sound

====
